---- MODULE Spec2Model ----
(***************************************************************************)
(* Session-scoped OAuth token lifecycle of experiment-mcp: the Redis token *)
(* store (app/utils/redis.ts), the session resolution of the tool and      *)
(* service layers, the authenticated-client factory                        *)
(* (GoogleAPIService.getAuthenticatedClient) and the OAuth callback        *)
(* ("Complete") endpoint.                                                  *)
(*                                                                         *)
(* Each handler is one action.  The variable last holds the inputs and the *)
(* outcome of the operation that has just run, until its caller takes the  *)
(* result (Return); the properties below speak about what an operation     *)
(* returned through it.                                                    *)
(***************************************************************************)
EXTENDS Integers, Sequences, FiniteSets, TLC

VARIABLES
    now,          \* the wall clock: milliseconds since the epoch of the model
    store,        \* the Redis keyspace: store key -> [text, expireAt]
    redisClient,  \* the module-level redisClient of app/utils/redis.ts
    env,          \* env.GOOGLE_MCP_SESSION_ID, fixed when the process starts
    issued,       \* the identifiers generateSessionId has returned so far
    written,      \* the session keys a storeTokens has written so far
    ticks,        \* how many times the clock has advanced
    writes,       \* how many storeTokens calls have reached the store
    puts,         \* per session: the last record written, when, and those before it
    created,      \* how many clients createClient has made
    served,       \* the access tokens API operations were authorized with, by session
    initiated,    \* whether a login request has been answered so far
    calls,        \* the calls that overlap in time: each one's position and data
    last          \* the operation that has just run: its inputs and its outcome

vars == <<now, store, redisClient, env, issued, written, ticks, writes, puts,
          created, calls, served, initiated, last>>

(***************************************************************************)
(* Bounds of the model.                                                    *)
(***************************************************************************)
MaxTicks == 2
MaxWrites == 2

(***************************************************************************)
(* JavaScript values.  A parameter that was not supplied and a member that *)
(* an object does not have are both undefined; objects are records whose   *)
(* DOMAIN is the set of members they have.                                 *)
(***************************************************************************)
Undefined == "<undefined>"

\* !x for a string-or-undefined x: undefined and the empty string are falsy.
Falsy(x) == x = Undefined \/ x = ""

\* JSON's null
Null == "<null>"

(***************************************************************************)
(* Time.  Date.now() is in milliseconds and thirty days of milliseconds    *)
(* exceed 2^31, so a millisecond count is kept as seconds plus a rest      *)
(* below one second: [s |-> 3, ms |-> 250] is 3250 ms.                     *)
(***************************************************************************)
MsPerSecond == 1000

Ms(s, m) == [s |-> s, ms |-> m]

\* n * 1000, for a number of seconds n
Times1000(n) == [s |-> n, ms |-> 0]

MsAdd(a, b) ==
    LET r == a.ms + b.ms
    IN  [s |-> a.s + b.s + (r \div MsPerSecond), ms |-> r % MsPerSecond]

\* a >= b
MsGE(a, b) == a.s > b.s \/ (a.s = b.s /\ a.ms >= b.ms)

(***************************************************************************)
(* Configuration and identifiers.                                          *)
(***************************************************************************)
\* the values GOOGLE_MCP_SESSION_ID may be started with (z.string())
EnvSessionIds == {"sess-cfg"}

\* the session identifiers a caller of storeTokens passes
PutSessionIds == {"sess-42", "sess-cfg"}

\* the session identifiers a caller of getTokens passes
GetSessionIds == {"sess-42", "sess-cfg", "default"}

\* what randomUUID() can return
UuidPool == {"uuid-1", "uuid-2"}

\* an identifier made once, when the module is loaded
GenerateSessionIdOnce(issuedSoFar) == {CHOOSE u \in UuidPool : TRUE}

\* generateSessionId(): a random version-4 UUID, which repeats none of those
\* made before
GenerateSessionId(issuedSoFar) == UuidPool \ issuedSoFar

\* a key that leaves the session identifier out
StoreKeyShared(userId) == "oauth_tokens:"

\* `oauth_tokens:${userId}`
StoreKey(userId) == "oauth_tokens:" \o userId

\* a retention of one hour
RetentionOneHour == 60 * 60

\* the retention of a stored record, in seconds: 60 * 60 * 24 * 30
RetentionSeconds == 60 * 60 * 24 * 30

(***************************************************************************)
(* JSON.  JSON.stringify of an object lists its members as name/value      *)
(* pairs, in the order of MemberOrder; JSON.parse builds the object back   *)
(* from the pairs, and throws on a text that is not JSON.  A text is the   *)
(* serialization of an object ("object"), the text null ("null"), the      *)
(* empty string ("empty") or something that is not JSON ("garbage").       *)
(***************************************************************************)
MemberOrder ==
    <<"access_token", "refresh_token", "scope", "token_type",
      "expiry_date", "expires_at">>

RECURSIVE MembersFrom(_, _)
MembersFrom(o, i) ==
    IF i > Len(MemberOrder) THEN <<>>
    ELSE IF MemberOrder[i] \in DOMAIN o
         THEN <<(<<MemberOrder[i], o[MemberOrder[i]]>>)>> \o MembersFrom(o, i + 1)
         ELSE MembersFrom(o, i + 1)

\* a serializer that leaves the refresh token out
JSONstringifyNoRefresh(o) ==
    [kind |-> "object",
     members |-> MembersFrom([f \in (DOMAIN o) \ {"refresh_token"} |-> o[f]], 1)]

JSONstringify(o) == [kind |-> "object", members |-> MembersFrom(o, 1)]

\* whether JSON.parse(text) throws a SyntaxError
JSONparseThrows(text) == text.kind \notin {"object", "null"}

\* JSON.parse(text) is null
ParsesToNull(text) == text.kind = "null"

\* the value of JSON.parse(text), for a text it accepts
JSONparse(text) ==
    IF text.kind = "null"
    THEN Null
    ELSE LET m == text.members
             names == {m[i][1] : i \in 1..Len(m)}
             \* a repeated member name keeps its last value
             at(f) == CHOOSE i \in 1..Len(m) :
                          m[i][1] = f /\ \A j \in 1..Len(m) : m[j][1] = f => j <= i
         IN  [f \in names |-> m[at(f)][2]]

(***************************************************************************)
(* The Redis server: SETEX and GET.  An entry whose time to live has run   *)
(* out is gone; Tick removes it when the clock reaches its deadline.       *)
(***************************************************************************)
NoEntries == [k \in {} |-> TRUE]

\* a write that leaves an entry that is already there as it is
SetExIfAbsent(entries, key, seconds, text, t) ==
    [k \in (DOMAIN entries) \cup {key} |->
        IF k \in DOMAIN entries
        THEN entries[k]
        ELSE [text |-> text, expireAt |-> MsAdd(t, Times1000(seconds))]]

\* a write that also restarts the time to live of every other entry
SetExRenewingAll(entries, key, seconds, text, t) ==
    [k \in (DOMAIN entries) \cup {key} |->
        [text |-> IF k = key THEN text ELSE entries[k].text,
         expireAt |-> MsAdd(t, Times1000(seconds))]]

\* a write that adds its members to those of the entry already there
SetExMerged(entries, key, seconds, text, t) ==
    [k \in (DOMAIN entries) \cup {key} |->
        IF k = key
        THEN [text |-> IF key \in DOMAIN entries /\ entries[key].text.kind = "object"
                       THEN [kind |-> "object",
                             members |-> text.members \o entries[key].text.members]
                       ELSE text,
              expireAt |-> MsAdd(t, Times1000(seconds))]
        ELSE entries[k]]

\* SETEX key seconds text, issued at time t
SetEx(entries, key, seconds, text, t) ==
    [k \in (DOMAIN entries) \cup {key} |->
        IF k = key
        THEN [text |-> text, expireAt |-> MsAdd(t, Times1000(seconds))]
        ELSE entries[k]]

\* GET key: the text, or nil
RedisGet(entries, key) ==
    IF key \in DOMAIN entries
    THEN [nil |-> FALSE, text |-> entries[key].text]
    ELSE [nil |-> TRUE]

\* !reply, for the reply of a GET: nil and the empty string are falsy
NoText(reply) == reply.nil \/ reply.text.kind = "empty"

\* the entries still alive at time t
Unexpired(entries, t) ==
    LET keep == {k \in DOMAIN entries : ~MsGE(t, entries[k].expireAt)}
    IN  [k \in keep |-> entries[k]]

(***************************************************************************)
(* getRedisClient.  up says whether the server can be reached while the    *)
(* calling operation runs.  The client is created on the first call; a     *)
(* connect that fails throws and leaves the client object in redisClient.  *)
(***************************************************************************)
ClientAfterGet(client, up) ==
    IF client = "null"
    THEN IF up THEN "ready" ELSE "failed"
    ELSE client

\* a client made by every call
CreatedEachCall(client, n) == n + 1

\* createClient is called when the module holds no client yet
CreatedAfterGet(client, n) == IF client = "null" THEN n + 1 ELSE n

\* getRedisClient() throws: the connect of a new client failed
GetRedisClientThrows(client, up) == client = "null" /\ ~up

\* a command sent on the client that getRedisClient returned is answered
CommandAnswered(client, up) == ClientAfterGet(client, up) = "ready" /\ up

(***************************************************************************)
(* Token records.  The service reads a stored record as GoogleTokens       *)
(* (access_token, refresh_token, expires_at in seconds, scope); the token  *)
(* endpoint's reply is a Credentials object (expiry_date in milliseconds,  *)
(* token_type).  A scope string is the sequence of its characters.         *)
(***************************************************************************)
\* the records a caller of storeTokens passes
PutRecords ==
    { [access_token |-> "at-1", refresh_token |-> "rt-1",
       expires_at |-> 3600, scope |-> <<"a", " ", "b">>],
      [access_token |-> "at-2", refresh_token |-> "rt-2",
       expires_at |-> 7200] }

\* the token lifetime the provider grants, in seconds (expires_in)
ExpiresIn == 3600

\* response.tokens of a successful oauth2Client.getToken(code) at time t
ProviderTokens(t) ==
    [access_token |-> "a", refresh_token |-> "b",
     scope |-> <<"a", " ", "b", " ", "c">>,
     token_type |-> "Bearer",
     expiry_date |-> MsAdd(t, Times1000(ExpiresIn))]

\* the code of a grant for which the token endpoint gives no refresh token
\* and no scope
BareGrant == "XYZ789"

\* response.tokens of oauth2Client.getToken(code) at time t, by the grant
\* the code stands for
ProviderReply(code, t) ==
    IF code = BareGrant
    THEN [access_token |-> "a", token_type |-> "Bearer",
          expiry_date |-> MsAdd(t, Times1000(ExpiresIn))]
    ELSE ProviderTokens(t)

(***************************************************************************)
(* An operation starts once the result of the one before it has been       *)
(* taken.  A getTokens may also be issued right as a storeTokens returns.  *)
(***************************************************************************)
Idle == [op |-> "idle"]

Quiet == last = Idle

Return ==
    /\ ~Quiet
    /\ last' = Idle
    /\ UNCHANGED <<now, store, redisClient, env, issued, written, ticks,
                   writes, puts, created, calls, served, initiated>>

(***************************************************************************)
(* storeTokens(userId, tokens) and getTokens(userId), app/utils/redis.ts.  *)
(***************************************************************************)
\* the history of writes after storeTokens(userId, tokens) at time t
Recorded(history, userId, tokens, t) ==
    [u \in (DOMAIN history) \cup {userId} |->
        IF u = userId
        THEN [tokens |-> tokens, at |-> t,
              since |-> IF userId \in DOMAIN history
                        THEN history[userId].since
                        ELSE t,
              prior |-> IF userId \in DOMAIN history
                        THEN history[userId].prior \cup {history[userId].tokens}
                        ELSE {}]
        ELSE history[u]]

\* a storeTokens that leaves the record of the configured session alone
StoreTokensEffectSparingDefault(userId, tokens, up) ==
    /\ redisClient' = ClientAfterGet(redisClient, up)
    /\ created' = CreatedAfterGet(redisClient, created)
    /\ IF CommandAnswered(redisClient, up)
          /\ ~(userId = env /\ StoreKey(userId) \in DOMAIN store)
       THEN /\ store' = SetEx(store, StoreKey(userId), RetentionSeconds,
                              JSONstringify(tokens), now)
            /\ written' = written \cup {userId}
            /\ writes' = writes + 1
            /\ puts' = Recorded(puts, userId, tokens, now)
       ELSE UNCHANGED <<store, written, writes, puts>>

\* what storeTokens does to the store, the client and the history
StoreTokensEffect(userId, tokens, up) ==
    /\ redisClient' = ClientAfterGet(redisClient, up)
    /\ created' = CreatedAfterGet(redisClient, created)
    /\ IF CommandAnswered(redisClient, up)
       THEN /\ store' = SetEx(store, StoreKey(userId), RetentionSeconds,
                              JSONstringify(tokens), now)
            /\ written' = written \cup {userId}
            /\ writes' = writes + 1
            /\ puts' = Recorded(puts, userId, tokens, now)
       ELSE UNCHANGED <<store, written, writes, puts>>

\* a storeTokens that logs the error and returns the key all the same
StoreTokensResultSwallowed(userId, up) ==
    [kind |-> "return", key |-> StoreKey(userId)]

\* what storeTokens returns or throws
StoreTokensResult(userId, up) ==
    IF CommandAnswered(redisClient, up)
    THEN [kind |-> "return", key |-> StoreKey(userId)]
    ELSE [kind |-> "throw", error |-> "StoreError"]

StoreTokens(userId, tokens) ==
    \E up \in BOOLEAN :
        /\ Quiet
        /\ writes < MaxWrites
        /\ StoreTokensEffect(userId, tokens, up)
        /\ last' = [op |-> "storeTokens", userId |-> userId, tokens |-> tokens,
                    key |-> StoreKey(userId),
                    out |-> StoreTokensResult(userId, up)]
        /\ UNCHANGED <<now, env, issued, ticks, calls, served, initiated>>

\* a getTokens that answers a failure of the store like a missing record
GetTokensResultAbsentOnError(userId, up) ==
    IF ~CommandAnswered(redisClient, up)
    THEN [kind |-> "null"]
    ELSE LET tokens == RedisGet(store, StoreKey(userId))
         IN  IF NoText(tokens)
             THEN [kind |-> "null"]
             ELSE IF JSONparseThrows(tokens.text)
                  THEN [kind |-> "throw", error |-> "SyntaxError"]
                  ELSE IF ParsesToNull(tokens.text)
                       THEN [kind |-> "null"]
                       ELSE [kind |-> "tokens", tokens |-> JSONparse(tokens.text)]

\* what getTokens returns or throws
GetTokensResult(userId, up) ==
    IF ~CommandAnswered(redisClient, up)
    THEN [kind |-> "throw", error |-> "StoreError"]
    ELSE LET tokens == RedisGet(store, StoreKey(userId))
         IN  IF NoText(tokens)
             THEN [kind |-> "null"]
             ELSE IF JSONparseThrows(tokens.text)
                  THEN [kind |-> "throw", error |-> "SyntaxError"]
                  ELSE IF ParsesToNull(tokens.text)
                       THEN [kind |-> "null"]
                       ELSE [kind |-> "tokens", tokens |-> JSONparse(tokens.text)]

\* whether the operation that ran just before this read was a storeTokens
\* for the same session that returned, and the record it was given
JustStored(op, userId) ==
    IF op.op = "storeTokens" /\ op.userId = userId /\ op.out.kind = "return"
    THEN [stored |-> TRUE, tokens |-> op.tokens]
    ELSE [stored |-> FALSE]

GetTokens(userId) ==
    \E up \in BOOLEAN :
        /\ Quiet \/ last.op = "storeTokens"
        /\ redisClient' = ClientAfterGet(redisClient, up)
        /\ created' = CreatedAfterGet(redisClient, created)
        /\ last' = [op |-> "getTokens", userId |-> userId,
                    key |-> StoreKey(userId),
                    answered |-> CommandAnswered(redisClient, up),
                    out |-> GetTokensResult(userId, up),
                    after |-> JustStored(last, userId)]
        /\ UNCHANGED <<now, store, env, issued, written, ticks, writes, puts,
                       calls, served, initiated>>

(***************************************************************************)
(* Session resolution.                                                     *)
(***************************************************************************)
\* the sentinel session identifier
Sentinel == "default"

\* the values a caller gives for a sessionId argument
CallerSessionIds == {Undefined, "", "default", "sess-42"}

\* a resolution that replaces the sentinel by an identifier made for the call
ResolveSessionAnew(sessionId) ==
    IF sessionId = "default"
    THEN CHOOSE u \in UuidPool : ~(last.op = "authenticate" /\ last.lookup = u)
    ELSE sessionId

\* getAuthenticatedClient: if (sessionId === "default") sessionId = env...
ResolveSession(sessionId) ==
    IF sessionId = Sentinel THEN env ELSE sessionId

\* a service method's parameter: sessionId: string = "default"
ParamDefault(sessionId) ==
    IF sessionId = Undefined THEN Sentinel ELSE sessionId

\* o.f for an object o: undefined when o has no member f
Member(o, f) == IF f \in DOMAIN o THEN o[f] ELSE Undefined

(***************************************************************************)
(* GoogleAPIService.getAuthenticatedClient, in its three versions:         *)
(*   "redis"     resolves the sentinel and reads Redis itself              *)
(*   "getTokens" resolves the sentinel and reads through getTokens         *)
(*   "unresolved" reads Redis itself under the identifier as given         *)
(***************************************************************************)
Services == {"redis", "getTokens", "unresolved"}

\* an expiry check with > for >=
IsExpiredStrictly(tokens, t) ==
    /\ "expires_at" \in DOMAIN tokens
    /\ ~MsGE(Times1000(tokens.expires_at), t)

\* Date.now() >= tokens.expires_at * 1000; with no expires_at member the
\* product is NaN and the comparison is false
IsExpired(tokens, t) ==
    /\ "expires_at" \in DOMAIN tokens
    /\ MsGE(t, Times1000(tokens.expires_at))

\* the rest of getAuthenticatedClient, once the record has been parsed
ClientFor(tokens, t) ==
    IF IsExpired(tokens, t)
    THEN [kind |-> "throw", error |-> "TokenExpired"]
    ELSE [kind |-> "client",
          access_token |-> Member(tokens, "access_token"),
          refresh_token |-> Member(tokens, "refresh_token")]

\* the session identifier the version reads the store under
LookupSession(service, sessionId) ==
    IF service = "unresolved" THEN sessionId ELSE ResolveSession(sessionId)

\* a version that reports an expired token as no tokens at all
AuthViaRedisOneError(sessionId, up) ==
    IF ~CommandAnswered(redisClient, up)
    THEN [kind |-> "throw", error |-> "StoreError"]
    ELSE LET tokensJson == RedisGet(store, StoreKey(sessionId))
         IN  IF NoText(tokensJson)
             THEN [kind |-> "throw", error |-> "NotAuthenticated"]
             ELSE IF JSONparseThrows(tokensJson.text)
                  THEN [kind |-> "throw", error |-> "SyntaxError"]
                  ELSE IF ParsesToNull(tokensJson.text)
                  THEN [kind |-> "throw", error |-> "TypeError"]
                  ELSE IF IsExpired(JSONparse(tokensJson.text), now)
                       THEN [kind |-> "throw", error |-> "NotAuthenticated"]
                       ELSE ClientFor(JSONparse(tokensJson.text), now)

\* getRedisClient, redis.get, JSON.parse and the checks
AuthViaRedis(sessionId, up) ==
    IF ~CommandAnswered(redisClient, up)
    THEN [kind |-> "throw", error |-> "StoreError"]
    ELSE LET tokensJson == RedisGet(store, StoreKey(sessionId))
         IN  IF NoText(tokensJson)
             THEN [kind |-> "throw", error |-> "NotAuthenticated"]
             ELSE IF JSONparseThrows(tokensJson.text)
                  THEN [kind |-> "throw", error |-> "SyntaxError"]
                  ELSE IF ParsesToNull(tokensJson.text)
                       \* tokens.scope on null
                       THEN [kind |-> "throw", error |-> "TypeError"]
                       ELSE ClientFor(JSONparse(tokensJson.text), now)

\* getTokens and the checks
AuthViaGetTokens(sessionId, up) ==
    LET tokens == GetTokensResult(sessionId, up)
    IN  CASE tokens.kind = "throw" -> tokens
          [] tokens.kind = "null" -> [kind |-> "throw", error |-> "NotAuthenticated"]
          [] OTHER -> ClientFor(tokens.tokens, now)

GetAuthenticatedClientResult(service, sessionId, up) ==
    IF service = "getTokens"
    THEN AuthViaGetTokens(LookupSession(service, sessionId), up)
    ELSE AuthViaRedis(LookupSession(service, sessionId), up)

\* a service that deletes the record it found expired
ServiceCallEvicting(service, arg) ==
    \E up \in BOOLEAN :
        LET sessionId == ParamDefault(arg)
            key == StoreKey(LookupSession(service, sessionId))
            out == GetAuthenticatedClientResult(service, sessionId, up)
        IN  /\ Quiet
            /\ redisClient' = ClientAfterGet(redisClient, up)
            /\ created' = CreatedAfterGet(redisClient, created)
            /\ store' = IF out.kind = "throw" /\ out.error = "TokenExpired"
                        THEN [k \in (DOMAIN store) \ {key} |-> store[k]]
                        ELSE store
            /\ last' = [op |-> "authenticate", via |-> "service",
                        service |-> service, arg |-> arg,
                        sessionId |-> sessionId,
                        lookup |-> LookupSession(service, sessionId),
                        key |-> key,
                        answered |-> CommandAnswered(redisClient, up),
                        out |-> out]
            /\ UNCHANGED <<now, env, issued, written, ticks, writes, puts,
                           calls, served, initiated>>

\* a method of the service called with the argument arg: the client it
\* works with, or the error it reports
ServiceCall(service, arg) ==
    \E up \in BOOLEAN :
        LET sessionId == ParamDefault(arg)
        IN  /\ Quiet
            /\ redisClient' = ClientAfterGet(redisClient, up)
            /\ created' = CreatedAfterGet(redisClient, created)
            /\ last' = [op |-> "authenticate", via |-> "service",
                        service |-> service, arg |-> arg,
                        sessionId |-> sessionId,
                        lookup |-> LookupSession(service, sessionId),
                        key |-> StoreKey(LookupSession(service, sessionId)),
                        answered |-> CommandAnswered(redisClient, up),
                        out |-> GetAuthenticatedClientResult(service, sessionId, up)]
            /\ UNCHANGED <<now, store, env, issued, written, ticks, writes,
                           puts, calls, served, initiated>>

(***************************************************************************)
(* An API operation of the service: getUserProfile(sessionId) gets a       *)
(* client from getAuthenticatedClient and calls the API with it.  The      *)
(* other operations of the service have the same shape.                    *)
(***************************************************************************)
\* the client an operation works with, when the service keeps the client it
\* made for the session before
ClientForCallCached(sessionId, up) ==
    LET lookup == LookupSession("redis", sessionId)
    IN  IF \E c \in served : c[1] = lookup
        THEN LET c == CHOOSE c \in served : c[1] = lookup
             IN  [kind |-> "client", access_token |-> c[2],
                  refresh_token |-> Undefined]
        ELSE GetAuthenticatedClientResult("redis", sessionId, up)

\* const auth = await this.getAuthenticatedClient(sessionId)
ClientForCall(sessionId, up) == GetAuthenticatedClientResult("redis", sessionId, up)

\* the clients operations have worked with, after one that got auth
ServedAfter(clients, sessionId, auth) ==
    IF auth.kind = "client"
    THEN clients \cup {<<sessionId, auth.access_token>>}
    ELSE clients

\* what getUserProfile returns: the profile, fetched with the client's
\* credentials, or the message of the error that was caught
ProfileResult(auth, apiOk) ==
    IF auth.kind = "throw"
    THEN [success |-> FALSE, error |-> auth.error]
    ELSE IF apiOk
         THEN [success |-> TRUE, profileOf |-> auth.access_token]
         ELSE [success |-> FALSE, error |-> "ApiError"]

GetUserProfile(arg) ==
    \E up \in BOOLEAN, apiOk \in BOOLEAN :
        LET sessionId == ParamDefault(arg)
            lookup == LookupSession("redis", sessionId)
            auth == ClientForCall(sessionId, up)
        IN  /\ Quiet
            /\ redisClient' = ClientAfterGet(redisClient, up)
            /\ created' = CreatedAfterGet(redisClient, created)
            /\ served' = ServedAfter(served, lookup, auth)
            /\ last' = [op |-> "getUserProfile", arg |-> arg,
                        sessionId |-> sessionId, lookup |-> lookup,
                        key |-> StoreKey(lookup),
                        answered |-> CommandAnswered(redisClient, up),
                        auth |-> auth,
                        out |-> ProfileResult(auth, apiOk)]
            /\ UNCHANGED <<now, store, env, issued, written, ticks, writes,
                           puts, calls, initiated>>

(***************************************************************************)
(* The tools.  A tool's schema may default an absent sessionId, and its    *)
(* handler passes the service either sessionId or                          *)
(* sessionId || env.GOOGLE_MCP_SESSION_ID.                                 *)
(***************************************************************************)
Tools == {"gmail", "gmailFallback", "calendar", "drive"}

\* inputSchema.parse(args).sessionId
SchemaSessionId(tool, x) ==
    IF tool \in {"gmail", "drive"} /\ x = Undefined THEN "default" ELSE x

\* the sessionId argument the handler gives the service
HandlerSessionId(tool, sessionId) ==
    IF tool = "gmail"
    THEN sessionId
    ELSE IF Falsy(sessionId) THEN env ELSE sessionId

ToolSessionId(tool, x) == HandlerSessionId(tool, SchemaSessionId(tool, x))

\* a tool called with sessionId x, served by the version of the service
\* that resolves the sentinel and reads Redis itself
ToolCall(tool, x) ==
    \E up \in BOOLEAN :
        LET sessionId == ParamDefault(ToolSessionId(tool, x))
        IN  /\ Quiet
            /\ redisClient' = ClientAfterGet(redisClient, up)
            /\ created' = CreatedAfterGet(redisClient, created)
            /\ last' = [op |-> "authenticate", via |-> tool,
                        service |-> "redis", arg |-> x,
                        sessionId |-> sessionId,
                        lookup |-> LookupSession("redis", sessionId),
                        key |-> StoreKey(LookupSession("redis", sessionId)),
                        answered |-> CommandAnswered(redisClient, up),
                        out |-> GetAuthenticatedClientResult("redis", sessionId, up)]
            /\ UNCHANGED <<now, store, env, issued, written, ticks, writes,
                           puts, calls, served, initiated>>

(***************************************************************************)
(* The OAuth callback ("Complete"), in its two versions: the pages-router  *)
(* handler (pages/auth/callback.ts), which answers JSON, and the           *)
(* app-router GET (app/api/auth/callback/route.ts), which answers an HTML  *)
(* page.  A query parameter is the sequence of the values the request      *)
(* gives it.                                                               *)
(***************************************************************************)
Handlers == {"pages", "route"}

CodeParams == { <<>>, <<"">>, <<"ABC123">>, <<"ABC123", "XYZ789">> }

StateParams == { <<>>, <<"">>, <<"sess-42">>, <<"default">> }

\* a value that is an array of strings
ArrayValue == "<array>"

\* req.query.name: undefined, the value, or an array of the values
ReqQuery(params) ==
    IF Len(params) = 0 THEN Undefined
    ELSE IF Len(params) = 1 THEN params[1] ELSE ArrayValue

\* searchParams.get(name): null, or the first value
SearchParamsGet(params) ==
    IF Len(params) = 0 THEN Undefined ELSE params[1]

QueryValue(handler, params) ==
    IF handler = "pages" THEN ReqQuery(params) ELSE SearchParamsGet(params)

\* !code || typeof code !== "string"
InvalidCode(code) == Falsy(code) \/ code = ArrayValue

\* no store key: the operation did not get as far as the store
NoKey == "<none>"

InvalidCodeResponse == [status |-> 400, error |-> "Invalid authorization code"]

FailedResponse == [status |-> 500, error |-> "Failed to authenticate"]

\* the 200 answer: the JSON body's sessionId, or the one the page shows
SuccessResponse(handler, sessionId) ==
    [status |-> 200, sessionId |-> sessionId,
     body |-> IF handler = "pages" THEN "json" ELSE "html"]

\* a callback that always generates the identifier
CallbackSessionIdGenerated(state, uuid) == uuid

\* state || generateSessionId()
CallbackSessionId(state, uuid) == IF Falsy(state) THEN uuid ELSE state

\* the request is refused before anything else happens
CompleteInvalid(handler, codeParams, stateParams) ==
    /\ Quiet
    /\ InvalidCode(QueryValue(handler, codeParams))
    /\ last' = [op |-> "complete", handler |-> handler,
                code |-> codeParams, state |-> stateParams,
                exchanged |-> FALSE, key |-> NoKey,
                out |-> InvalidCodeResponse]
    /\ UNCHANGED <<now, store, redisClient, env, issued, written, ticks,
                   writes, puts, created, calls, served, initiated>>

\* oauth2Client.getToken(code) throws
CompleteExchangeFails(handler, codeParams, stateParams) ==
    /\ Quiet
    /\ ~InvalidCode(QueryValue(handler, codeParams))
    /\ last' = [op |-> "complete", handler |-> handler,
                code |-> codeParams, state |-> stateParams,
                exchanged |-> TRUE, key |-> NoKey,
                out |-> FailedResponse]
    /\ UNCHANGED <<now, store, redisClient, env, issued, written, ticks,
                   writes, puts, created, calls, served, initiated>>

\* the exchange succeeds and the tokens go to storeTokens
CompleteExchanged(handler, codeParams, stateParams) ==
    \E up \in BOOLEAN, uuid \in GenerateSessionId(issued) :
        LET state == QueryValue(handler, stateParams)
            sessionId == CallbackSessionId(state, uuid)
            tokens == ProviderReply(QueryValue(handler, codeParams), now)
        IN  /\ Quiet
            /\ ~InvalidCode(QueryValue(handler, codeParams))
            /\ writes < MaxWrites
            /\ issued' = IF Falsy(state) THEN issued \cup {uuid} ELSE issued
            /\ StoreTokensEffect(sessionId, tokens, up)
            /\ last' = [op |-> "complete", handler |-> handler,
                        code |-> codeParams, state |-> stateParams,
                        exchanged |-> TRUE, key |-> StoreKey(sessionId),
                        tokens |-> tokens,
                        before |-> written,
                        storeAnswered |-> CommandAnswered(redisClient, up),
                        out |-> IF StoreTokensResult(sessionId, up).kind = "return"
                                THEN SuccessResponse(handler, sessionId)
                                ELSE FailedResponse]
            /\ UNCHANGED <<now, env, ticks, calls, served, initiated>>

Complete(handler, codeParams, stateParams) ==
    \/ CompleteInvalid(handler, codeParams, stateParams)
    \/ CompleteExchangeFails(handler, codeParams, stateParams)
    \/ CompleteExchanged(handler, codeParams, stateParams)

(***************************************************************************)
(* The login ("Initiate") endpoint: it builds the provider's consent URL    *)
(* and redirects the browser there.                                        *)
(***************************************************************************)
RedirectResponse == [status |-> 307, location |-> "authUrl"]

Initiate ==
    /\ Quiet
    /\ initiated' = TRUE
    /\ last' = [op |-> "initiate", out |-> RedirectResponse]
    /\ UNCHANGED <<now, store, redisClient, env, issued, written, ticks,
                   writes, puts, created, calls, served>>

(***************************************************************************)
(* The auth status resource (createAuthResource.read), in its two          *)
(* versions: "env" reads the session of GOOGLE_MCP_SESSION_ID              *)
(* (unnamed/part_002), "literal" reads the session "default"               *)
(* (unnamed/part_003).  The document is the object given to                *)
(* JSON.stringify; a member whose value is undefined is left out of the    *)
(* text, and is Undefined here.                                            *)
(***************************************************************************)
StatusVariants == {"env", "literal"}

\* the whole string as the only scope
SplitWhole(chars) == <<chars>>

\* chars.split(" ")
RECURSIVE Split(_)
Split(chars) ==
    IF \A i \in 1..Len(chars) : chars[i] # " "
    THEN <<chars>>
    ELSE LET i == CHOOSE k \in 1..Len(chars) :
                      chars[k] = " " /\ \A j \in 1..(k - 1) : chars[j] # " "
         IN  <<SubSeq(chars, 1, i - 1)>> \o Split(SubSeq(chars, i + 1, Len(chars)))

\* !!x
Truthy(x) == ~Falsy(x)

\* const sessionId = env.GOOGLE_MCP_SESSION_ID / const sessionId = "default"
StatusSessionId(variant) == IF variant = "env" THEN env ELSE "default"

NoSessionDocument ==
    [authenticated |-> FALSE, error |-> "No session ID found.",
     authUrl |-> "/auth/login"]

PleaseAuthenticateMessage ==
    "No authentication tokens found. Please authenticate first."

PleaseAuthenticateDocument(sessionId) ==
    [authenticated |-> FALSE, message |-> PleaseAuthenticateMessage,
     authUrl |-> "/auth/login", sessionId |-> sessionId]

UnavailableDocument ==
    [authenticated |-> FALSE, error |-> "Failed to read authentication status",
     message |-> "Authentication service unavailable",
     authUrl |-> "/auth/login"]

\* authData of a record that was found
PresentDocument(variant, sessionId, tokens) ==
    [authenticated |-> TRUE,
     sessionId |-> sessionId,
     tokenType |-> Member(tokens, "token_type"),
     hasAccessToken |-> Truthy(Member(tokens, "access_token")),
     hasRefreshToken |-> Truthy(Member(tokens, "refresh_token")),
     expiresAt |-> IF variant = "env" /\ "expiry_date" \notin DOMAIN tokens
                   THEN Null
                   ELSE Member(tokens, "expiry_date"),
     scopes |-> IF "scope" \in DOMAIN tokens THEN Split(tokens.scope) ELSE <<>>,
     authUrl |-> "/auth/login"]

\* a read whose document carries the access token
StatusDocumentWithToken(variant, sessionId, read) ==
    CASE read.kind = "throw" -> UnavailableDocument
      [] read.kind = "null" ->
            IF variant = "env" THEN UnavailableDocument
            ELSE PleaseAuthenticateDocument(sessionId)
      [] OTHER ->
            [authenticated |-> TRUE,
             accessToken |-> Member(read.tokens, "access_token"),
             scopes |-> IF "scope" \in DOMAIN read.tokens
                        THEN Split(read.tokens.scope) ELSE <<>>]

\* a read without the try/catch
StatusDocumentUncaught(variant, sessionId, read) ==
    CASE read.kind = "throw" -> read
      [] read.kind = "null" -> PleaseAuthenticateDocument(sessionId)
      [] OTHER -> PresentDocument(variant, sessionId, read.tokens)

\* the document read() returns, given what getTokens(sessionId) gave.  In
\* the "env" version the statement after the if/else dereferences tokens
\* (tokens.scope?.split), which throws a TypeError when tokens is null; the
\* catch answers it like any other error
StatusDocument(variant, sessionId, read) ==
    CASE read.kind = "throw" -> UnavailableDocument
      [] read.kind = "null" ->
            IF variant = "env" THEN UnavailableDocument
            ELSE PleaseAuthenticateDocument(sessionId)
      [] OTHER -> PresentDocument(variant, sessionId, read.tokens)

StatusRead(variant) ==
    \E up \in BOOLEAN :
        LET sessionId == StatusSessionId(variant)
            read == GetTokensResult(sessionId, up)
        IN  /\ Quiet
            /\ IF variant = "env" /\ Falsy(sessionId)
               THEN /\ UNCHANGED <<redisClient, created>>
                    /\ last' = [op |-> "status", variant |-> variant,
                                sessionId |-> sessionId, key |-> NoKey,
                                read |-> [kind |-> "none"],
                                out |-> NoSessionDocument]
               ELSE /\ redisClient' = ClientAfterGet(redisClient, up)
                    /\ created' = CreatedAfterGet(redisClient, created)
                    /\ last' = [op |-> "status", variant |-> variant,
                                sessionId |-> sessionId,
                                key |-> StoreKey(sessionId),
                                read |-> read,
                                out |-> StatusDocument(variant, sessionId, read)]
            /\ UNCHANGED <<now, store, env, issued, written, ticks, writes,
                           puts, calls, served, initiated>>

(***************************************************************************)
(* Another writer of the Redis server leaves a text that is not the        *)
(* serialization of a record under a key of the store.                     *)
(***************************************************************************)
Malformed == [kind |-> "garbage"]

\* the texts that are not a serialized record: one that is not JSON, the
\* empty string, and the JSON text null
SpoiledTexts == {Malformed, [kind |-> "empty"], [kind |-> "null"]}

Tamper(key, text) ==
    /\ Quiet
    /\ key \in DOMAIN store
    /\ store[key].text.kind = "object"
    /\ store' = [store EXCEPT ![key].text = text]
    /\ UNCHANGED <<now, redisClient, env, issued, written, ticks, writes,
                   puts, created, calls, served, initiated, last>>

(***************************************************************************)
(* The clock.                                                              *)
(***************************************************************************)
\* the steps the clock takes: one millisecond, and one millisecond less than
\* a token lifetime and than the retention window
TickSteps ==
    { Ms(0, 1), Ms(ExpiresIn - 1, 999), Ms(RetentionSeconds - 1, 999) }

Tick(d) ==
    /\ Quiet
    /\ ticks < MaxTicks
    /\ ticks' = ticks + 1
    /\ now' = MsAdd(now, d)
    /\ store' = Unexpired(store, now')
    /\ last' = last
    /\ UNCHANGED <<redisClient, env, issued, written, writes, puts, created,
                   calls, served, initiated>>

(***************************************************************************)
(* Calls that overlap in time.  An async function runs until it awaits;    *)
(* what another call can do in between is a step of its own here.  A call  *)
(* is at "exchange" while oauth2Client.getToken is awaited, at "connect"   *)
(* while the connect() it started is awaited, at "command" once            *)
(* getRedisClient has given it the client and its SETEX or GET is awaited, *)
(* and at "done" when it has returned or thrown.  The Redis server runs    *)
(* one command at a time.  A command given to a client whose connect is    *)
(* still under way waits in the client's queue until the connect ends.     *)
(***************************************************************************)
Callers == {1, 2, 3}

\* the session the overlapping calls are about
SharedSessionIds == {"sess-42"}

SharedCodeParams == { <<"ABC123">>, <<"XYZ789">> }

SharedStateParams == { <<"sess-42">> }

\* the callers that have called so far
Called == DOMAIN calls

\* callers call in turn: the next one is the least that has not called
NextCaller(p) == p \notin Called /\ \A q \in Callers : q < p => q \in Called

WriteOps == {"storeTokens", "complete"}

\* how many of the calls so far are writes
WriteCalls == Cardinality({p \in Called : calls[p].op \in WriteOps})

\* calls with one more call, or with caller p's call changed
WithCall(p, call) == [q \in Called \cup {p} |-> IF q = p THEN call ELSE calls[q]]

\* the members of record a, and those of b that a has not
Also(a, b) == [f \in (DOMAIN a) \cup (DOMAIN b) |-> IF f \in DOMAIN a THEN a[f] ELSE b[f]]

\* getRedisClient up to its first await: with no client yet the call makes
\* one, assigns it and awaits its connect(); otherwise it returns the client
\* the module holds, in whatever state that client is (got)
EnterGetRedisClient(p, call) ==
    IF redisClient = "null"
    THEN /\ redisClient' = "connecting"
         /\ created' = created + 1
         /\ calls' = WithCall(p, Also([pc |-> "connect"], call))
    ELSE /\ UNCHANGED <<redisClient, created>>
         /\ calls' = WithCall(p, Also([pc |-> "command", got |-> redisClient], call))

\* storeTokens(userId, tokens) is called
BeginStoreTokens(p, userId, tokens) ==
    /\ NextCaller(p)
    /\ WriteCalls < MaxWrites
    /\ EnterGetRedisClient(p, [op |-> "storeTokens", userId |-> userId,
                               tokens |-> tokens])
    /\ UNCHANGED <<now, store, env, issued, written, ticks, writes, puts,
                   served, initiated, last>>

\* getTokens(userId) is called
BeginGetTokens(p, userId) ==
    /\ NextCaller(p)
    /\ EnterGetRedisClient(p, [op |-> "getTokens", userId |-> userId])
    /\ UNCHANGED <<now, store, env, issued, written, ticks, writes, puts,
                   served, initiated, last>>

\* a callback request with a valid code arrives: getToken(code) is awaited
BeginComplete(p, handler, codeParams, stateParams) ==
    /\ NextCaller(p)
    /\ WriteCalls < MaxWrites
    /\ ~InvalidCode(QueryValue(handler, codeParams))
    /\ calls' = WithCall(p, [op |-> "complete", pc |-> "exchange",
                             handler |-> handler, code |-> codeParams,
                             state |-> stateParams])
    /\ UNCHANGED <<now, store, redisClient, env, issued, written, ticks,
                   writes, puts, created, served, initiated, last>>

\* getToken(code) answers, and the tokens go to storeTokens; or it throws
ExchangeDone(p) ==
    /\ p \in Called
    /\ calls[p].pc = "exchange"
    /\ \E ok \in BOOLEAN, uuid \in GenerateSessionId(issued) :
          LET call == calls[p]
              state == QueryValue(call.handler, call.state)
              sessionId == CallbackSessionId(state, uuid)
              tokens == ProviderReply(QueryValue(call.handler, call.code), now)
          IN  IF ok
              THEN /\ issued' = IF Falsy(state) THEN issued \cup {uuid} ELSE issued
                   /\ EnterGetRedisClient(p, Also([userId |-> sessionId,
                                                   tokens |-> tokens], call))
              ELSE /\ calls' = WithCall(p, Also([pc |-> "done",
                                                 out |-> FailedResponse], call))
                   /\ UNCHANGED <<redisClient, issued, created>>
    /\ UNCHANGED <<now, store, env, written, ticks, writes, puts, served,
                   initiated, last>>

\* what a call answers when its store operation threw
Thrown(call) ==
    IF call.op = "complete"
    THEN FailedResponse
    ELSE [kind |-> "throw", error |-> "StoreError"]

\* the connect() that call p awaits ends: the client is connected and
\* getRedisClient returns it, or connect() rejects and the call throws
ConnectDone(p) ==
    /\ p \in Called
    /\ calls[p].pc = "connect"
    /\ \E up \in BOOLEAN :
          IF up
          THEN /\ redisClient' = "ready"
               /\ calls' = WithCall(p, Also([pc |-> "command", got |-> "ready"],
                                            calls[p]))
          ELSE /\ redisClient' = "failed"
               /\ calls' = WithCall(p, Also([pc |-> "done", out |-> Thrown(calls[p])],
                                            calls[p]))
    /\ UNCHANGED <<now, store, env, issued, written, ticks, writes, puts,
                   created, served, initiated, last>>

\* the server runs the SETEX of call p, or the command fails
CommandSetEx(p) ==
    /\ p \in Called
    /\ calls[p].pc = "command"
    /\ calls[p].op \in WriteOps
    /\ redisClient \in {"ready", "failed"}
    /\ \E up \in BOOLEAN :
          LET call == calls[p]
              result == StoreTokensResult(call.userId, up)
          IN  /\ StoreTokensEffect(call.userId, call.tokens, up)
              /\ calls' = WithCall(p, Also(
                    [pc |-> "done",
                     out |-> IF result.kind # "return" THEN Thrown(call)
                             ELSE IF call.op = "complete"
                                  THEN SuccessResponse(call.handler, call.userId)
                                  ELSE result,
                     applied |-> result.kind = "return",
                     order |-> writes', at |-> now], call))
    /\ UNCHANGED <<now, env, issued, ticks, served, initiated, last>>

\* the server runs the GET of call p and the call parses the text, or the
\* command fails
CommandGet(p) ==
    /\ p \in Called
    /\ calls[p].pc = "command"
    /\ calls[p].op = "getTokens"
    /\ redisClient \in {"ready", "failed"}
    /\ \E up \in BOOLEAN :
          calls' = WithCall(p, Also([pc |-> "done",
                                     out |-> GetTokensResult(calls[p].userId, up)],
                                    calls[p]))
    /\ UNCHANGED <<now, store, redisClient, env, issued, written, ticks,
                   writes, puts, created, served, initiated, last>>

(***************************************************************************)
(* The specification.                                                      *)
(***************************************************************************)
Init ==
    /\ now = Ms(0, 0)
    /\ store = NoEntries
    /\ redisClient = "null"
    /\ env \in EnvSessionIds
    /\ issued = {}
    /\ written = {}
    /\ ticks = 0
    /\ writes = 0
    /\ puts = NoEntries
    /\ created = 0
    /\ calls = NoEntries
    /\ served = {}
    /\ initiated = FALSE
    /\ last = Idle

\* the operations of the token store
StoreOps ==
    \/ \E userId \in PutSessionIds, tokens \in PutRecords : StoreTokens(userId, tokens)
    \/ \E userId \in GetSessionIds : GetTokens(userId)

\* the operations that need an authenticated client
ClientOps ==
    \/ \E service \in Services, arg \in CallerSessionIds : ServiceCall(service, arg)
    \/ \E tool \in Tools, x \in CallerSessionIds : ToolCall(tool, x)

\* the requests of the OAuth callback
CallbackOps ==
    \E handler \in Handlers, codeParams \in CodeParams, stateParams \in StateParams :
        Complete(handler, codeParams, stateParams)

Clock == \E d \in TickSteps : Tick(d)

\* the program as deployed: the callback is what writes the store
Next ==
    \/ CallbackOps
    \/ ClientOps
    \/ Clock
    \/ Return

Spec == Init /\ [][Next]_vars

\* the token store on its own, under callers of storeTokens and getTokens
NextStore ==
    \/ StoreOps
    \/ Clock
    \/ Return

SpecStore == Init /\ [][NextStore]_vars

\* the service over a store that callers of storeTokens fill
NextService ==
    \/ \E userId \in PutSessionIds, tokens \in PutRecords : StoreTokens(userId, tokens)
    \/ ClientOps
    \/ Clock
    \/ Return

SpecService == Init /\ [][NextService]_vars

\* the callback endpoint on its own
NextCallback ==
    \/ CallbackOps
    \/ Clock
    \/ Return

SpecCallback == Init /\ [][NextCallback]_vars

\* the requests that fill the store a status read looks at
StatusCodeParams == { <<>>, <<"ABC123">>, <<"XYZ789">> }

StatusStateParams == { <<"sess-cfg">>, <<"default">> }

\* the status resource over the store the callback fills
NextStatus ==
    \/ \E handler \in Handlers, codeParams \in StatusCodeParams,
          stateParams \in StatusStateParams :
           Complete(handler, codeParams, stateParams)
    \/ \E variant \in StatusVariants : StatusRead(variant)
    \/ \E key \in DOMAIN store : Tamper(key, Malformed)
    \/ Clock
    \/ Return

SpecStatus == Init /\ [][NextStatus]_vars

\* calls of the token store and of the callback that overlap in time
NextOverlap ==
    \/ \E p \in Callers, userId \in SharedSessionIds, tokens \in PutRecords :
           BeginStoreTokens(p, userId, tokens)
    \/ \E p \in Callers, userId \in SharedSessionIds : BeginGetTokens(p, userId)
    \/ \E p \in Callers, handler \in Handlers, codeParams \in SharedCodeParams,
          stateParams \in SharedStateParams :
           BeginComplete(p, handler, codeParams, stateParams)
    \/ \E p \in Callers : ExchangeDone(p)
    \/ \E p \in Callers : ConnectDone(p)
    \/ \E p \in Callers : CommandSetEx(p)
    \/ \E p \in Callers : CommandGet(p)

SpecOverlap == Init /\ [][NextOverlap]_vars

\* the components that read the store, over a store that callers of
\* storeTokens fill
NextReaders ==
    \/ \E userId \in PutSessionIds, tokens \in PutRecords : StoreTokens(userId, tokens)
    \/ \E service \in Services, arg \in CallerSessionIds : ServiceCall(service, arg)
    \/ \E variant \in StatusVariants : StatusRead(variant)
    \/ Initiate
    \/ Clock
    \/ Return

SpecReaders == Init /\ [][NextReaders]_vars

\* the API operations of the service over a store that callers of
\* storeTokens fill
NextOperations ==
    \/ \E userId \in PutSessionIds, tokens \in PutRecords : StoreTokens(userId, tokens)
    \/ \E arg \in CallerSessionIds : GetUserProfile(arg)
    \/ Clock
    \/ Return

SpecOperations == Init /\ [][NextOperations]_vars

\* getTokens and the service over a store whose entries another writer
\* may replace by any text that is not a serialized record
NextSpoiled ==
    \/ \E userId \in PutSessionIds, tokens \in PutRecords : StoreTokens(userId, tokens)
    \/ \E userId \in GetSessionIds : GetTokens(userId)
    \/ \E service \in Services, arg \in CallerSessionIds : ServiceCall(service, arg)
    \/ \E key \in DOMAIN store, text \in SpoiledTexts : Tamper(key, text)
    \/ Return

SpecSpoiled == Init /\ [][NextSpoiled]_vars

\* the requests of the two endpoints of the login flow
FlowCodeParams == { <<>>, <<"ABC123">>, <<"XYZ789">> }

FlowStateParams == { <<>>, <<"sess-cfg">> }

\* the login and callback endpoints, requested in any order
NextFlow ==
    \/ Initiate
    \/ \E handler \in Handlers, codeParams \in FlowCodeParams,
          stateParams \in FlowStateParams :
           Complete(handler, codeParams, stateParams)
    \/ Clock
    \/ Return

SpecFlow == Init /\ [][NextFlow]_vars

\* the requests of the callback that write next to callers of storeTokens
WriterCodeParams == { <<>>, <<"ABC123">> }

WriterStateParams == { <<>>, <<"sess-42">> }

\* both writers of the store: callers of storeTokens and callback requests
NextWriters ==
    \/ \E userId \in PutSessionIds, tokens \in PutRecords : StoreTokens(userId, tokens)
    \/ \E handler \in Handlers, codeParams \in WriterCodeParams,
          stateParams \in WriterStateParams :
           Complete(handler, codeParams, stateParams)
    \/ Tick(Ms(0, 1))
    \/ Return

SpecWriters == Init /\ [][NextWriters]_vars

(***************************************************************************)
(* Properties.  A call that could not reach the Redis server throws the    *)
(* client's error (StoreError); what an operation promises about its       *)
(* result is promised for the calls the server answered.                   *)
(***************************************************************************)
\* the call threw because the server could not be reached
StoreFailed(out) == out.kind = "throw" /\ out.error = "StoreError"

\* the call threw the error named
Threw(out, error) == out.kind = "throw" /\ out.error = error

\* the record stored under key
RecordAt(key) == JSONparse(store[key].text)

\* C1: a getTokens(s) issued immediately after a storeTokens(s, r) that
\* returned gives back a record equal to r in every member (SpecStore).
C1_RoundTrip ==
    (last.op = "getTokens" /\ last.after.stored /\ ~StoreFailed(last.out))
        => /\ last.out.kind = "tokens"
           /\ last.out.tokens = last.after.tokens

C1_Witness ==
    /\ last.op = "getTokens"
    /\ last.after.stored
    /\ last.out.kind = "tokens"
    /\ "refresh_token" \in DOMAIN last.out.tokens

\* C2: getTokens(s) returns null, and does not throw, in every state in
\* which no storeTokens(s, _) has written yet (SpecStore).
C2_AbsentBeforePut ==
    (last.op = "getTokens" /\ last.userId \notin written /\ ~StoreFailed(last.out))
        => last.out.kind = "null"

C2_Witness ==
    /\ last.op = "getTokens"
    /\ last.userId \notin written
    /\ written # {}
    /\ last.out.kind = "null"

\* C3: getAuthenticatedClient fails with NotAuthenticated if and only if the
\* store has no entry under the key the call reads (SpecService).
C3_NotAuthenticatedIffAbsent ==
    last.op = "authenticate"
        => /\ Threw(last.out, "NotAuthenticated") => last.key \notin DOMAIN store
           /\ (last.key \notin DOMAIN store /\ ~StoreFailed(last.out))
                  => Threw(last.out, "NotAuthenticated")

C3_Witness ==
    /\ last.op = "authenticate"
    /\ Threw(last.out, "NotAuthenticated")
    /\ last.key \notin DOMAIN store
    /\ DOMAIN store # {}

\* C4: with a record r under the key the call reads, getAuthenticatedClient
\* fails with TokenExpired exactly when the clock has reached r.expires_at
\* (seconds), and otherwise returns a client holding r's access token and
\* refresh token; it never reports TokenExpired without such a record
\* (SpecService).
C4_ExpiredIffReached ==
    last.op = "authenticate"
        => /\ Threw(last.out, "TokenExpired") => last.key \in DOMAIN store
           /\ (last.key \in DOMAIN store /\ ~StoreFailed(last.out))
                  => LET r == RecordAt(last.key)
                     IN  IF "expires_at" \in DOMAIN r /\ now.s >= r.expires_at
                         THEN Threw(last.out, "TokenExpired")
                         ELSE last.out = [kind |-> "client",
                                          access_token |-> r.access_token,
                                          refresh_token |-> r.refresh_token]

\* the call is made at the very millisecond the token expires
C4_Witness ==
    /\ last.op = "authenticate"
    /\ last.key \in DOMAIN store
    /\ Threw(last.out, "TokenExpired")
    /\ now = Times1000(RecordAt(last.key).expires_at)

\* C5: for a record the callback stored from the provider's tokens, every
\* getAuthenticatedClient for that session made once the clock has reached
\* the tokens' expiry fails with TokenExpired.
C5_ExpiryEndToEnd ==
    (/\ last.op = "authenticate"
     /\ last.key \in DOMAIN store
     /\ ~StoreFailed(last.out)
     /\ "expiry_date" \in DOMAIN RecordAt(last.key)
     /\ MsGE(now, RecordAt(last.key).expiry_date))
        => Threw(last.out, "TokenExpired")

\* C6: no operation reads or writes the key oauth_tokens:default: the store
\* never holds an entry under it and no lookup the server answers is for it.
C6_SentinelNeverKey ==
    /\ StoreKey(Sentinel) \notin DOMAIN store
    /\ (last.op = "authenticate" /\ ~StoreFailed(last.out))
           => last.key # StoreKey(Sentinel)

\* C7 as stated: a session identifier that is present and is not the
\* sentinel is looked up verbatim; an absent one and the sentinel are looked
\* up as GOOGLE_MCP_SESSION_ID (SpecService).
C7_ResolutionAsStated ==
    last.op = "authenticate"
        => IF last.arg \in {Undefined, Sentinel}
           THEN last.key = StoreKey(env)
           ELSE last.key = StoreKey(last.arg)

Persisted == last.op = "complete" /\ last.key # NoKey /\ last.storeAnswered

\* C9 as stated: a callback with a code and a state value st, whose
\* exchange succeeds, stores the provider's tokens under oauth_tokens:st and
\* answers with sessionId st.
C9_StateAsStated ==
    (Persisted /\ Len(last.state) = 1)
        => /\ last.out.status = 200
           /\ last.out.sessionId = last.state[1]
           /\ last.key = StoreKey(last.state[1])

\* C9: a callback with a code and a state value st that is not empty,
\* whose exchange succeeds and whose write the store takes, stores the
\* provider's tokens under oauth_tokens:st and answers 200 with sessionId st.
C9_StateBecomesSession ==
    (Persisted /\ Len(last.state) = 1 /\ last.state[1] # "")
        => /\ last.out.status = 200
           /\ last.out.sessionId = last.state[1]
           /\ last.key = StoreKey(last.state[1])
           /\ last.key \in DOMAIN store
           /\ RecordAt(last.key) = last.tokens

C9_Witness ==
    /\ Persisted
    /\ last.state = <<"sess-42">>
    /\ last.out.sessionId = "sess-42"
    /\ StoreKey("sess-42") \in DOMAIN store

\* C10: a callback without a code parameter, or with a code that is not a
\* single string, answers 400 {error: "Invalid authorization code"}, makes
\* no exchange and leaves the store as it was.
C10_InvalidCodeRefused ==
    [][\A handler \in Handlers, codeParams \in CodeParams, stateParams \in StateParams :
          (Complete(handler, codeParams, stateParams) /\ Len(codeParams) # 1)
              => /\ last'.out = InvalidCodeResponse
                 /\ ~last'.exchanged
                 /\ store' = store]_vars

\* C11: a callback with a code and no state, whose exchange succeeds and
\* whose write the store takes, answers with a generated identifier that no
\* earlier callback has issued, and stores the provider's tokens under
\* exactly that identifier (SpecCallback).
C11_FreshSession ==
    (Persisted /\ Falsy(QueryValue(last.handler, last.state)))
        => /\ last.out.status = 200
           /\ last.out.sessionId \in UuidPool
           /\ last.out.sessionId \notin last.before
           /\ last.key = StoreKey(last.out.sessionId)
           /\ last.key \in DOMAIN store
           /\ RecordAt(last.key) = last.tokens

\* a second identifier is generated after a first one was issued
C11_Witness ==
    /\ Persisted
    /\ last.state = <<>>
    /\ last.out.status = 200
    /\ last.before \cap UuidPool # {}

\* C12: a callback whose exchange fails, or whose store write fails, answers
\* 500 {error: "Failed to authenticate"}, with no session identifier, and
\* leaves the store as it was; storeTokens hands the failure of the write to
\* the callback (SpecCallback).
C12_FailuresAnswer500 ==
    [][(/\ last.op = "idle"
        /\ last'.op = "complete"
        /\ last'.exchanged
        /\ (last'.key = NoKey \/ ~last'.storeAnswered))
           => /\ last'.out = FailedResponse
              /\ "sessionId" \notin DOMAIN last'.out
              /\ store' = store]_vars

\* the write of an exchanged bundle failed
C12_Witness ==
    /\ last.op = "complete"
    /\ last.key # NoKey
    /\ ~last.storeAnswered
    /\ last.out = FailedResponse
    /\ store # NoEntries

\* the status read found a record it could parse
StatusFound ==
    /\ last.op = "status"
    /\ last.read.kind # "throw"
    /\ last.key \in DOMAIN store
    /\ ~JSONparseThrows(store[last.key].text)

\* C13: a status read that finds no record for its session returns
\* {authenticated: false, message: "... Please authenticate first.",
\* authUrl: "/auth/login"}, and not the 'service unavailable' document.
C13_AbsentAsksToAuthenticate ==
    (/\ last.op = "status"
     /\ last.read.kind # "throw"
     /\ last.key # NoKey
     /\ last.key \notin DOMAIN store)
        => /\ last.out.authenticated = FALSE
           /\ last.out.message = PleaseAuthenticateMessage
           /\ last.out.authUrl = "/auth/login"

\* the strings of a sequence, joined by single spaces
RECURSIVE JoinBySpace(_)
JoinBySpace(parts) ==
    IF Len(parts) = 0 THEN <<>>
    ELSE IF Len(parts) = 1 THEN parts[1]
         ELSE parts[1] \o <<" ">> \o JoinBySpace(Tail(parts))

\* C14: a status read that finds a record reports authenticated: true,
\* hasAccessToken and hasRefreshToken as whether the record has a non-empty
\* token of each kind, the record's expiry_date, and as scopes the parts of
\* the record's scope string between its spaces (SpecStatus).
C14_PresentReportsRecord ==
    StatusFound
        => LET r == RecordAt(last.key)
           IN  /\ last.out.authenticated = TRUE
               /\ last.out.hasAccessToken
                      = ("access_token" \in DOMAIN r /\ r.access_token # "")
               /\ last.out.hasRefreshToken
                      = ("refresh_token" \in DOMAIN r /\ r.refresh_token # "")
               /\ "expiry_date" \in DOMAIN r => last.out.expiresAt = r.expiry_date
               /\ IF "scope" \in DOMAIN r
                  THEN /\ JoinBySpace(last.out.scopes) = r.scope
                       /\ \A i \in 1..Len(last.out.scopes) :
                              \A j \in 1..Len(last.out.scopes[i]) :
                                  last.out.scopes[i][j] # " "
                  ELSE last.out.scopes = <<>>

\* the scope "a b c" is reported as a, b, c
C14_Witness ==
    /\ StatusFound
    /\ "scope" \in DOMAIN RecordAt(last.key)
    /\ RecordAt(last.key).scope = <<"a", " ", "b", " ", "c">>
    /\ last.out.scopes = << <<"a">>, <<"b">>, <<"c">> >>
    /\ last.out.hasAccessToken
    /\ last.out.hasRefreshToken

\* token values other than the stored ones
OtherTokenValues == {"p", "q"}

\* tokens with its access token and refresh token, where it has them,
\* replaced by a and b
Reissued(tokens, a, b) ==
    [f \in DOMAIN tokens |->
        IF f = "access_token" /\ tokens[f] # "" THEN a
        ELSE IF f = "refresh_token" /\ tokens[f] # "" THEN b
             ELSE tokens[f]]

\* C15: the document of a status read does not depend on the values of the
\* tokens: had the record held any other access token and refresh token,
\* present where the stored ones are, the read would have returned the
\* same document (SpecStatus).
C15_TokenValuesNotRevealed ==
    StatusFound
        => \A a \in OtherTokenValues, b \in OtherTokenValues :
               StatusDocument(last.variant, last.sessionId,
                   [kind |-> "tokens",
                    tokens |-> Reissued(last.read.tokens, a, b)])
               = last.out

\* a record with both tokens has been read
C15_Witness ==
    /\ StatusFound
    /\ last.read.tokens.access_token = "a"
    /\ "refresh_token" \in DOMAIN last.read.tokens
    /\ last.out.hasRefreshToken

\* C16: a status read returns a document and never throws; when the lookup
\* fails (server not reached, stored text not JSON) the document is
\* authenticated: false with 'Authentication service unavailable'
\* (SpecStatus).
C16_LookupFailureIsUnavailable ==
    last.op = "status"
        => /\ "authenticated" \in DOMAIN last.out
           /\ last.read.kind = "throw"
                  => /\ last.out.authenticated = FALSE
                     /\ last.out.message = "Authentication service unavailable"

\* the stored text was not JSON
C16_Witness ==
    /\ last.op = "status"
    /\ Threw(last.read, "SyntaxError")
    /\ last.out.message = "Authentication service unavailable"

\* C17: a storeTokens(s, r2) after a storeTokens(s, r1) replaces the record:
\* every later getTokens(s) that finds an entry returns r2, whole and
\* nothing else, and the entry of a session is the one record written last
\* (SpecStore).
C17_PutReplaces ==
    /\ \A u \in DOMAIN puts :
           StoreKey(u) \in DOMAIN store => RecordAt(StoreKey(u)) = puts[u].tokens
    /\ (last.op = "getTokens" /\ ~StoreFailed(last.out))
           => IF last.key \in DOMAIN store
              THEN /\ last.out.kind = "tokens"
                   /\ last.out.tokens = puts[last.userId].tokens
              ELSE last.out.kind = "null"

\* a read after a second write of a different record
C17_Witness ==
    /\ last.op = "getTokens"
    /\ last.out.kind = "tokens"
    /\ puts[last.userId].prior # {}
    /\ last.out.tokens \notin puts[last.userId].prior

\* thirty days
ThirtyDays == Ms(30 * 24 * 60 * 60, 0)

C19_ConnectRetried ==
    redisClient = "failed"
        => /\ ClientAfterGet(redisClient, TRUE) = "ready"
           /\ \A userId \in GetSessionIds :
                  ~StoreFailed(GetTokensResult(userId, TRUE))

\* the operations that call getRedisClient
StoreOpNames == {"storeTokens", "getTokens", "authenticate", "status", "complete"}

\* C20: the connection is made lazily and once: no client exists before the
\* first store operation, a client is only ever created by a store
\* operation that finds none, and once a connect has succeeded every later
\* store operation gets that same client, with no other created or
\* connected (SpecStore).
C20_LazyAndOnce ==
    /\ created = 0
    /\ redisClient = "null"
    /\ [][/\ created' # created
                 => /\ last'.op \in StoreOpNames
                    /\ redisClient = "null"
                    /\ created' = created + 1
          /\ redisClient = "ready"
                 => /\ redisClient' = "ready"
                    /\ created' = created]_vars

\* several operations have used the one client
C20_Witness ==
    /\ redisClient = "ready"
    /\ created = 1
    /\ writes = MaxWrites
    /\ last.op = "getTokens"
    /\ last.out.kind = "tokens"

\* the writes of the overlapping calls that the server has run
AppliedWrites ==
    {p \in Called : /\ calls[p].op \in WriteOps
                    /\ calls[p].pc = "done"
                    /\ "applied" \in DOMAIN calls[p]
                    /\ calls[p].applied}

\* the write of caller p is the one the server ran last
LastApplied(p) ==
    p \in AppliedWrites /\ \A q \in AppliedWrites : calls[q].order <= calls[p].order

\* the records that the writes called so far supplied for the session
Supplied(userId) ==
    {calls[p].tokens : p \in {q \in Called : /\ calls[q].op \in WriteOps
                                              /\ "tokens" \in DOMAIN calls[q]
                                              /\ calls[q].userId = userId}}

\* C21: overlapping calls for one session race harmlessly (SpecOverlap): once
\* no call is under way the store holds exactly the record of the write the
\* server ran last, and every read that the server answered returned either
\* absent or one whole record that some write supplied.
C21_RaceHarmless ==
    /\ (\A p \in Called : calls[p].pc = "done")
          => \A p \in Called :
                LastApplied(p)
                   => /\ StoreKey(calls[p].userId) \in DOMAIN store
                      /\ RecordAt(StoreKey(calls[p].userId)) = calls[p].tokens
    /\ \A p \in Called :
          (calls[p].op = "getTokens" /\ calls[p].pc = "done"
              /\ ~StoreFailed(calls[p].out))
             => \/ calls[p].out.kind = "null"
                \/ /\ calls[p].out.kind = "tokens"
                   /\ calls[p].out.tokens \in Supplied(calls[p].userId)

\* the write called first ran last, and a read called after both returned
\* the record of the other write
C21_Witness ==
    /\ Called = Callers
    /\ \A p \in Called : calls[p].pc = "done"
    /\ AppliedWrites = {1, 2}
    /\ calls[1].order > calls[2].order
    /\ calls[1].tokens # calls[2].tokens
    /\ calls[3].op = "getTokens"
    /\ calls[3].out.kind = "tokens"
    /\ calls[3].out.tokens = calls[2].tokens
    /\ RecordAt(StoreKey("sess-42")) = calls[1].tokens

\* C26: under every interleaving, the client that getRedisClient hands a
\* caller is connected (SpecOverlap).
C26_ReturnedClientConnected ==
    \A p \in Called : "got" \in DOMAIN calls[p] => calls[p].got = "ready"

\* C22: a store that cannot be reached is not an absent record
\* (SpecReaders): when the connection or the read fails, getTokens throws
\* the store's error instead of returning null, and getAuthenticatedClient
\* throws that error and not "No authentication tokens found".
C22_UnreachableIsNotAbsent ==
    /\ (last.op = "getTokens" /\ ~last.answered)
          => /\ StoreFailed(last.out)
             /\ last.out.kind # "null"
    /\ (last.op = "authenticate" /\ ~last.answered)
          => /\ StoreFailed(last.out)
             /\ ~Threw(last.out, "NotAuthenticated")

\* the service, reading through getTokens, met a store that did not answer
\* while the session's record was missing
C22_Witness ==
    /\ last.op = "authenticate"
    /\ last.service = "getTokens"
    /\ ~last.answered
    /\ last.key \notin DOMAIN store
    /\ StoreFailed(last.out)

\* the operations of the components that only read the store
ReadOps == {"authenticate", "status", "initiate"}

\* C23: the read-side components never change the token store
\* (SpecReaders): a getAuthenticatedClient, a status read and a login
\* request leave every entry of the store as it was, whatever they answer;
\* an expired record is neither refreshed nor deleted.
C23_ReadersLeaveStore ==
    [][(last.op = "idle" /\ last'.op \in ReadOps) => store' = store]_vars

\* the service found the record expired, and the record is still there
C23_Witness ==
    /\ last.op = "authenticate"
    /\ Threw(last.out, "TokenExpired")
    /\ last.key \in DOMAIN store
    /\ IsExpired(RecordAt(last.key), now)

\* C24: the client an API operation works with is made for that operation
\* from the record stored at that moment (SpecOperations): an operation
\* that the store answered is authorized with the tokens of the record put
\* last for its session, and it fails when the record is absent or expired,
\* whatever clients earlier operations worked with.
C24_ClientMadeAfresh ==
    (last.op = "getUserProfile" /\ last.answered)
       => /\ last.auth.kind = "client"
               => /\ last.key \in DOMAIN store
                  /\ last.lookup \in DOMAIN puts
                  /\ ~IsExpired(puts[last.lookup].tokens, now)
                  /\ last.auth.access_token = puts[last.lookup].tokens.access_token
                  /\ last.auth.refresh_token = puts[last.lookup].tokens.refresh_token
          /\ (last.key \notin DOMAIN store \/ IsExpired(RecordAt(last.key), now))
               => /\ last.auth.kind = "throw"
                  /\ ~last.out.success

\* put(s, r1); operation; put(s, r2); operation: the second operation works
\* with r2's tokens
C24_Witness ==
    /\ last.op = "getUserProfile"
    /\ last.lookup = "sess-42"
    /\ last.out.success
    /\ last.auth.access_token = "at-2"
    /\ <<"sess-42", "at-1">> \in served
    /\ puts["sess-42"].tokens.access_token = "at-2"
    /\ \E r \in puts["sess-42"].prior : r.access_token = "at-1"

\* the entry under key is there and is not a serialized record
Spoiled(key) == key \in DOMAIN store /\ store[key].text.kind # "object"

\* C25: malformed stored data is an error and not an absent record
\* (SpecSpoiled): when the entry of the session is not a serialized record,
\* getTokens throws instead of returning null, and getAuthenticatedClient
\* does not throw "No authentication tokens found".
C25_MalformedIsError ==
    /\ (last.op = "getTokens" /\ last.answered /\ Spoiled(last.key))
          => last.out.kind = "throw"
    /\ (last.op = "authenticate" /\ last.answered /\ Spoiled(last.key))
          => /\ last.out.kind = "throw"
             /\ ~Threw(last.out, "NotAuthenticated")

\* the store key a tool called with sessionId x reads
ToolKey(tool, x) == StoreKey(LookupSession("redis", ParamDefault(ToolSessionId(tool, x))))

\* C27: every tool resolves the same caller input to the same store key
\* (SpecService): the key a tool call read is the key each of the tools
\* reads for that sessionId value.
C27_ToolsAgree ==
    (last.op = "authenticate" /\ last.via \in Tools)
       => \A tool \in Tools : ToolKey(tool, last.arg) = last.key

\* what getAuthenticatedClient answers for the default session in this
\* state, the store answering
FactoryNow == GetAuthenticatedClientResult("redis", Sentinel, TRUE)

\* the document a status read gives in this state, the store answering
StatusNow(variant) ==
    StatusDocument(variant, StatusSessionId(variant),
                   GetTokensResult(StatusSessionId(variant), TRUE))

\* C28: the status resource and getAuthenticatedClient agree about the
\* default session (SpecReaders): when a status read reports authenticated:
\* true, getAuthenticatedClient for the default session at that instant
\* returns a client; when getAuthenticatedClient for the default session
\* throws "No authentication tokens found", a status read at that instant
\* reports authenticated: false.
C28_StatusAgreesWithFactory ==
    /\ (last.op = "status" /\ last.out.authenticated)
          => FactoryNow.kind = "client"
    /\ (last.op = "authenticate" /\ last.lookup = env /\ last.answered
           /\ Threw(last.out, "NotAuthenticated"))
          => \A variant \in StatusVariants : ~StatusNow(variant).authenticated

\* the store after SETEX of the serialized tokens under key at time t
Written(entries, key, tokens, t) ==
    [k \in (DOMAIN entries) \cup {key} |->
        IF k = key
        THEN [text |-> JSONstringify(tokens), expireAt |-> MsAdd(t, ThirtyDays)]
        ELSE entries[k]]

\* C29: records come from callback requests only, and a callback request
\* needs no login request before it (SpecFlow).  The store starts empty; a
\* step that changes it is either the clock dropping entries whose
\* retention ran out or a callback request answered 200; and a callback
\* request answered 200 has written the tokens of its exchange under the
\* key of its state value, or of the identifier it generated, in place of
\* whatever that key held.
C29_OnlyCompleteWrites ==
    /\ store = NoEntries
    /\ [][/\ store' # store
                => \/ now' # now /\ store' = Unexpired(store, now')
                   \/ last.op = "idle" /\ last'.op = "complete"
                         /\ last'.out.status = 200
          /\ (last.op = "idle" /\ last'.op = "complete" /\ last'.out.status = 200)
                => /\ store' = Written(store, last'.key, last'.tokens, now)
                   /\ LET state == QueryValue(last'.handler, last'.state)
                      IN  IF Falsy(state)
                          THEN \E u \in issued' \ issued : last'.key = StoreKey(u)
                          ELSE last'.key = StoreKey(state)
       ]_vars

\* a callback request with no login request before it replaced the record
\* of the configured default session
C29_Witness ==
    /\ ~initiated
    /\ last.op = "complete"
    /\ last.out.status = 200
    /\ last.key = StoreKey(env)
    /\ puts[env].prior # {}
    /\ puts[env].tokens \notin puts[env].prior
    /\ RecordAt(last.key) = last.tokens

\* the session identifiers of the model
AllSessionIds == PutSessionIds \cup GetSessionIds \cup UuidPool \cup {""}

\* C30: sessions are isolated (SpecWriters).  A storeTokens and a callback
\* request leave the entry of every key other than their own as it was,
\* text and deadline, and add no other key; and different session
\* identifiers have different store keys.
C30_SessionsIsolated ==
    /\ \A s \in AllSessionIds, t \in AllSessionIds : s # t => StoreKey(s) # StoreKey(t)
    /\ [][(last.op = "idle" /\ last'.op \in {"storeTokens", "complete"})
             => /\ \A k \in DOMAIN store :
                      k # last'.key => k \in DOMAIN store' /\ store'[k] = store[k]
                /\ DOMAIN store' \subseteq (DOMAIN store) \cup {last'.key}
       ]_vars

\* a callback request stored the tokens of session sess-42 while the record
\* of session sess-cfg, written earlier, kept its text and its deadline
C30_Witness ==
    /\ last.op = "complete"
    /\ last.out.status = 200
    /\ last.key = StoreKey("sess-42")
    /\ StoreKey("sess-cfg") \in DOMAIN store
    /\ puts["sess-cfg"].at # now
    /\ store[StoreKey("sess-cfg")].expireAt = MsAdd(puts["sess-cfg"].at, ThirtyDays)
    /\ RecordAt(StoreKey("sess-cfg")) = puts["sess-cfg"].tokens

====
